---- MODULE Spec2Model ----
(***************************************************************************)
(* InfoJobs scraper.  Two programs live in the repository:                 *)
(*   - the hybrid pipeline (Playwright handshake, then one CheerioCrawler  *)
(*     with LIST and DETAIL handlers), modelled by SpecHybrid;             *)
(*   - src/main.js (API phase, Playwright list + HTTP details, HTML        *)
(*     fallback), modelled by SpecMain.                                    *)
(* JavaScript runs handlers on one thread: the code between two awaits is  *)
(* one atomic step, and every await is a point where other handlers run.   *)
(***************************************************************************)
EXTENDS Integers, Sequences, FiniteSets, TLC

\* ------------------------------------------------------------------ bounds
\* Size of a crawler's worker pool in the model (the source sets 10 for the
\* hybrid crawler and 5 for the detail crawlers of main.js).
Workers == 2
\* Largest result target (results_wanted) drawn by Init.
MaxTarget == 2
\* Largest page ceiling (max_pages) drawn by Init.
MaxPageCeiling == 2

\* ------------------------------------------------------- program constants
maxRequestRetries == 5

VARIABLES
    prog,            \* which program this run is: "hybrid" or "main"
    RESULTS_WANTED,  \* result target (maxItems in main.js)
    MAX_PAGES,       \* page ceiling
    collectDetails,  \* input flag
    dedupe,          \* input flag of main.js
    initial,         \* seed URLs, in order
    mainPc,          \* position of the top-level async function
    queue,           \* requests waiting in the running crawler's queue
    flight,          \* the handlers the pool is running, at most Workers
    saved,           \* the saved counter
    sink,            \* sink[u]: records appended to the dataset with url u
    seenUrls,        \* the seen-set
    sessionCookies,  \* 0: null or empty, h > 0: the cookies of handshake h
    userAgent,       \* 0: the literal default, h > 0: the browser of handshake h
    cookieString,    \* the Cookie header built once after the first handshake
    handshakes,      \* acquireSessionCookies invocations so far
    botCheck,        \* botCheck[u]: how the site's bot check answers a fetch of u
    mst,             \* main.js: state.blocked, the phase's sets, the API loop
    hist,            \* history of the run, read only by the properties
    input,           \* a value handed to one of the pure functions
    out              \* what that function returned

\* The input, fixed for the run; no crawler touches the pure functions' values.
cfgVars == <<prog, RESULTS_WANTED, MAX_PAGES, collectDetails, dedupe, initial, input, out>>
vars == <<cfgVars, mainPc, queue, flight, saved, sink, seenUrls, sessionCookies,
          userAgent, cookieString, handshakes, botCheck, mst, hist>>

\* No value under a pure function, no result.
NoInput == [kind |-> "none"]
NoOut == [by |-> "none"]

\* --------------------------------------------------------------- the site
\* A URL is a path and a number: a list page of search "A", "B" or "C" with its
\* page parameter, or the detail page "of" of a job.
ListUrl(s, n) == [path |-> s, n |-> n]
DetailUrl(j) == [path |-> "of", n |-> j]
Jobs == {1, 2, 3, 4}
DetailUrls == {DetailUrl(j) : j \in Jobs}

\* The job links a list page shows, in document order.  Pages past the last
\* real page of a search show none.
LinksOn(url) ==
    CASE url = ListUrl("A", 1) -> <<DetailUrl(1), DetailUrl(2)>>
      [] url = ListUrl("B", 1) -> <<DetailUrl(2), DetailUrl(3), DetailUrl(4)>>
      [] url = ListUrl("A", 2) -> <<DetailUrl(3), DetailUrl(1)>>
      [] OTHER -> <<>>

\* The start URLs of a run: search A, searches A and B, or search C, which
\* has no result (every page of it shows no job link).
SeedLists ==
    {<<ListUrl("A", 1)>>, <<ListUrl("A", 1), ListUrl("B", 1)>>, <<ListUrl("C", 1)>>}

Min(a, b) == IF a < b THEN a ELSE b
Max(a, b) == IF a > b THEN a ELSE b
Range(s) == {s[i] : i \in 1..Len(s)}

\* links.slice(0, k)
Slice(s, k) == SubSeq(s, 1, Min(Len(s), k))

\* ------------------------------------------------------ requests, workers
NoUrl == [path |-> "", n |-> 0]
\* A request of the crawler's queue: its userData (label, pageNo), the retry
\* count the crawler keeps, and the Cookie and User-Agent headers it carries.
Request(u, l, p) ==
    [url |-> u, label |-> l, pageNo |-> p, retryCount |-> 0, hCookie |-> 0, hUA |-> 0]
NoReq == Request(NoUrl, "", 0)
\* A running handler: where it is (pc), its request, a local value n, and
\* whether the document it loaded carries a block marker (blk).
\* Which worker of the pool runs it is not observable, so the pool is the
\* set of its running handlers.
Handler(p, r, k) == [pc |-> p, req |-> r, n |-> k, blk |-> FALSE]
FreeWorker == Cardinality(flight) < Workers
At(h, p) == [h EXCEPT !.pc = p]

\* main.js keeps nothing in the hybrid pipeline.
NoMain ==
    [blocked |-> 0, seenIds |-> {}, found |-> {}, visited |-> {}, page |-> 0,
     items |-> <<>>, api |-> "none", apiFail |-> 0]

NoHist ==
    [disp |-> [u \in DetailUrls |-> 0], disc |-> [u \in DetailUrls |-> 0],
     failed |-> {}, fromBlocked |-> FALSE, blk |-> {}, nblk |-> 0, lists |-> {},
     fetched |-> [u \in DetailUrls |-> 0], tfail |-> 0]

\* The site's bot check is a script: it answers a scripted URL with a
\* document carrying the block marker on its first fetch ("once"), on every
\* fetch ("always") or never ("no").  A scripted URL may also be out of
\* reach: the fetch itself fails, on every attempt ("down") or on every
\* attempt after a first one answered with the bot-check page ("once, then
\* down").
Blocked(u) == u \in DOMAIN botCheck /\ botCheck[u] \notin {"no", "down"}
Down(u) == u \in DOMAIN botCheck /\ botCheck[u] = "down"
\* The script moves on with every fetch of a scripted URL.
Fetched(u) ==
    IF u \in DOMAIN botCheck /\ botCheck[u] = "once"
    THEN [botCheck EXCEPT ![u] = "no"]
    ELSE IF u \in DOMAIN botCheck /\ botCheck[u] = "once, then down"
    THEN [botCheck EXCEPT ![u] = "down"]
    ELSE botCheck
Scripted == {ListUrl("B", 1), DetailUrl(1)}

\* ------------------------------------------------------- the hybrid pipeline
\* const cookieString = sessionCookies.map(...).join('; ')
CookieStringOf(cookies) == cookies

\* preNavigationHooks: the request's own headers first, then Cookie and
\* User-Agent set from cookieString and userAgent.
PreNavigationHook(r) == [r EXCEPT !.hCookie = cookieString, !.hUA = userAgent]

\* findJobLinks: the links of the document that are not in seenUrls, each
\* once, in document order.
RECURSIVE Unseen(_, _)
Unseen(links, seen) ==
    IF links = <<>> THEN <<>>
    ELSE IF Head(links) \in seen THEN Unseen(Tail(links), seen)
         ELSE <<Head(links)>> \o Unseen(Tail(links), seen \cup {Head(links)})
\* a link finder that forgets the seen set
findJobLinksAll(links) == links
findJobLinks(links) == Unseen(links, seenUrls)

\* findNextPage: no "Siguiente" link on the site's pages, so the page
\* parameter of the current URL plus one.
findNextPage(url) == [url EXCEPT !.n = @ + 1]

\* enqueueLinks({urls, userData: {label: 'DETAIL'}})
EnqueueDetails(q, urls) == q \cup {Request(urls[i], "DETAIL", 1) : i \in 1..Len(urls)}

\* The page test with <= in the place of <
PaginationPastCeiling(q, r, s) ==
    IF s < RESULTS_WANTED /\ r.pageNo <= MAX_PAGES
    THEN q \cup {Request(findNextPage(r.url), "LIST", r.pageNo + 1)}
    ELSE q

\* if (saved < RESULTS_WANTED && pageNo < MAX_PAGES) enqueue the next page
Pagination(q, r, s) ==
    IF s < RESULTS_WANTED /\ r.pageNo < MAX_PAGES
    THEN q \cup {Request(findNextPage(r.url), "LIST", r.pageNo + 1)}
    ELSE q

\* a slice that is one link short
RemainingButOne(links) == Slice(links, Max(0, RESULTS_WANTED - saved - 1))
\* const remaining = RESULTS_WANTED - saved; links.slice(0, Math.max(0, remaining))
Remaining(links) == Slice(links, Max(0, RESULTS_WANTED - saved))

CountUp(f, urls) == [u \in DOMAIN f |-> IF u \in urls THEN f[u] + 1 ELSE f[u]]
CountUpTo2(f, urls) == [u \in DOMAIN f |-> IF u \in urls THEN Min(2, f[u] + 1) ELSE f[u]]

InitHybrid ==
    /\ prog = "hybrid"
    /\ RESULTS_WANTED \in {1, MaxTarget}
    /\ MAX_PAGES \in {1, MaxPageCeiling}
    /\ collectDetails \in BOOLEAN
    /\ dedupe = TRUE
    /\ mst = NoMain
    /\ initial \in SeedLists
    /\ mainPc = "start"
    /\ queue = {}
    /\ flight = {}
    /\ saved = 0
    /\ sink = [u \in DetailUrls |-> 0]
    /\ seenUrls = {}
    /\ sessionCookies = 0
    /\ userAgent = 0
    /\ cookieString = 0
    /\ handshakes = 0
    /\ botCheck \in [Scripted -> {"no", "once"}]
    /\ hist = NoHist
    /\ input = NoInput /\ out = NoOut

\* await acquireSessionCookies(): the handshake crawler starts its navigation.
AcquireInitial ==
    /\ prog = "hybrid" /\ mainPc = "start"
    /\ handshakes' = handshakes + 1
    /\ mainPc' = "hs_cookies"
    /\ UNCHANGED <<cfgVars, mst, queue, flight,
                   saved, sink, seenUrls, sessionCookies, userAgent, cookieString,
                   botCheck, hist>>

\* The handshake handler reads the browser's cookies (possibly none).
InitialCookies ==
    /\ prog = "hybrid" /\ mainPc = "hs_cookies"
    /\ \E got \in {0, handshakes} : sessionCookies' = got
    /\ mainPc' = "hs_ua"
    /\ UNCHANGED <<cfgVars, mst, queue, flight,
                   saved, sink, seenUrls, userAgent, cookieString, handshakes,
                   botCheck, hist>>

\* a check that lets an empty cookie jar pass
HandshakeNeverFails == FALSE
\* if (!sessionCookies || sessionCookies.length === 0) throw new Error(...)
HandshakeFailed == sessionCookies = 0

\* The handshake handler reads the user agent and returns; main checks the
\* cookies, builds cookieString and starts the crawler on the seeds.
InitialUserAgent ==
    /\ prog = "hybrid" /\ mainPc = "hs_ua"
    /\ userAgent' = handshakes
    /\ IF HandshakeFailed
       THEN /\ mainPc' = "failed"
            /\ UNCHANGED <<cookieString, queue>>
       ELSE /\ mainPc' = "crawl"
            /\ cookieString' = CookieStringOf(sessionCookies)
            /\ queue' = {Request(initial[i], "LIST", 1) : i \in 1..Len(initial)}
    /\ UNCHANGED <<cfgVars, mst, flight, saved,
                   sink, seenUrls, sessionCookies, handshakes, botCheck, hist>>

\* The pool takes a request; the hook attaches the headers; the fetch starts.
Dispatch ==
    /\ prog = "hybrid" /\ mainPc = "crawl"
    /\ FreeWorker
    /\ \E r \in queue :
        /\ queue' = queue \ {r}
        /\ flight' = flight \cup {Handler("fetch", PreNavigationHook(r), 0)}
    /\ UNCHANGED <<cfgVars, mst, mainPc,
                   saved, sink, seenUrls, sessionCookies, userAgent, cookieString,
                   handshakes, botCheck, hist>>

\* The document is the bot-check page: the handler re-acquires the cookies.
RespondBlocked(h) ==
    /\ prog = "hybrid" /\ h \in flight /\ h.pc = "fetch"
    /\ Blocked(h.req.url)
    /\ botCheck' = Fetched(h.req.url)
    /\ hist' = [hist EXCEPT !.blk = @ \cup {h.req.url}, !.nblk = @ + 1,
                            !.fetched = CountUpTo2(@, {h.req.url})]
    /\ handshakes' = handshakes + 1
    /\ flight' = (flight \ {h}) \cup {Handler("hs_cookies", h.req, handshakes + 1)}
    /\ UNCHANGED <<cfgVars, mst, mainPc,
                   queue, saved, sink, seenUrls, sessionCookies, userAgent, cookieString>>

\* acquireSessionCookies, called by a handler: sessionCookies = cookies
ReacquireCookies(h) ==
    /\ prog = "hybrid" /\ h \in flight /\ h.pc = "hs_cookies"
    /\ sessionCookies' = h.n
    /\ flight' = (flight \ {h}) \cup {At(h, "hs_ua")}
    /\ UNCHANGED <<cfgVars, mst, mainPc,
                   queue, saved, sink, seenUrls, userAgent, cookieString, handshakes,
                   botCheck, hist>>

\* a crawler that retries without counting the retry
ReclaimUncounted(q, r) == q \cup {r}
\* a crawler that drops a request whose handler threw
ReclaimNever(q, r) == q
\* a crawler that grants one retry more
ReclaimOnceMore(q, r) ==
    IF r.retryCount <= maxRequestRetries
    THEN q \cup {[r EXCEPT !.retryCount = @ + 1]}
    ELSE q
\* The crawler's handling of a handler that threw: the request goes back to
\* the queue until it has been retried maxRequestRetries times, then it is
\* handed to failedRequestHandler.
Reclaim(q, r) ==
    IF r.retryCount < maxRequestRetries
    THEN q \cup {[r EXCEPT !.retryCount = @ + 1]}
    ELSE q
Abandoned(r) == r.retryCount >= maxRequestRetries

\* userAgent = ...; back in the handler: request.headers['Cookie'] =
\* newCookieString; throw new Error('Bot detection ...').
ReacquireUserAgent(h) ==
    /\ prog = "hybrid" /\ h \in flight /\ h.pc = "hs_ua"
    /\ userAgent' = h.n
    /\ LET r == [h.req EXCEPT !.hCookie = CookieStringOf(sessionCookies)] IN
        /\ queue' = Reclaim(queue, r)
        /\ hist' = [hist EXCEPT !.failed = IF Abandoned(r) THEN @ \cup {r.url} ELSE @]
    /\ flight' = flight \ {h}
    /\ UNCHANGED <<cfgVars, mst, mainPc,
                   saved, sink, seenUrls, sessionCookies, cookieString, handshakes,
                   botCheck>>

\* The fetch fails (timeout, connection reset, 5xx): no handler runs, and the
\* crawler treats the request as it treats one whose handler threw.
RespondError(h) ==
    /\ prog = "hybrid" /\ h \in flight /\ h.pc = "fetch"
    /\ Down(h.req.url)
    /\ queue' = Reclaim(queue, h.req)
    /\ hist' = [hist EXCEPT !.failed = IF Abandoned(h.req) THEN @ \cup {h.req.url} ELSE @,
                            !.tfail = Min(maxRequestRetries + 2, @ + 1)]
    /\ flight' = flight \ {h}
    /\ UNCHANGED <<cfgVars, mst, mainPc, saved, sink, seenUrls, sessionCookies,
                   userAgent, cookieString, handshakes, botCheck>>

\* A LIST document that is not the bot-check page: link discovery, then the
\* detail requests are enqueued (collectDetails) or the URLs are pushed to
\* the dataset; both are awaited, so the pagination test runs in a later
\* step.  With nothing to enqueue or push the handler goes on at once.
RespondList(h) ==
    /\ prog = "hybrid" /\ h \in flight /\ h.pc = "fetch" /\ h.req.label = "LIST"
    /\ ~Blocked(h.req.url) /\ ~Down(h.req.url)
    /\ LET r == h.req
           doc == LinksOn(r.url)
           links == findJobLinks(doc)
           part == Remaining(links)
       IN
        /\ seenUrls' = seenUrls \cup Range(links)
        /\ hist' = [hist EXCEPT !.disc = CountUpTo2(@, Range(doc)),
                                !.disp = IF collectDetails THEN CountUp(@, Range(part)) ELSE @,
                                !.lists = @ \cup {r.url}]
        /\ IF part = <<>>
           THEN /\ queue' = Pagination(queue, r, saved)
                /\ flight' = flight \ {h}
                /\ sink' = sink
           ELSE IF collectDetails
           THEN /\ queue' = EnqueueDetails(queue, part)
                /\ flight' = (flight \ {h}) \cup {At(h, "list_enqueued")}
                /\ sink' = sink
           ELSE /\ queue' = queue
                /\ flight' = (flight \ {h}) \cup {Handler("list_pushed", h.req, Len(part))}
                /\ sink' = CountUp(sink, Range(part))
    /\ UNCHANGED <<cfgVars, mst, mainPc,
                   saved, sessionCookies, userAgent, cookieString, handshakes, botCheck>>

\* After await enqueueLinks(...): the pagination test.
ListEnqueued(h) ==
    /\ prog = "hybrid" /\ h \in flight /\ h.pc = "list_enqueued"
    /\ queue' = Pagination(queue, h.req, saved)
    /\ flight' = flight \ {h}
    /\ UNCHANGED <<cfgVars, mst, mainPc,
                   saved, sink, seenUrls, sessionCookies, userAgent, cookieString,
                   handshakes, botCheck, hist>>

\* After await Dataset.pushData(toPush): saved += toPush.length, then the
\* pagination test.
ListPushed(h) ==
    /\ prog = "hybrid" /\ h \in flight /\ h.pc = "list_pushed"
    /\ saved' = saved + h.n
    /\ queue' = Pagination(queue, h.req, saved')
    /\ flight' = flight \ {h}
    /\ UNCHANGED <<cfgVars, mst, mainPc,
                   sink, seenUrls, sessionCookies, userAgent, cookieString, handshakes,
                   botCheck, hist>>

\* a target test that lets one more record through
TargetReachedLate == saved > RESULTS_WANTED
\* if (saved >= RESULTS_WANTED) { skip }
TargetReached == saved >= RESULTS_WANTED

\* A DETAIL document that is not the bot-check page: skipped when the target
\* is reached, else the record is pushed to the dataset (awaited).
RespondDetail(h) ==
    /\ prog = "hybrid" /\ h \in flight /\ h.pc = "fetch" /\ h.req.label = "DETAIL"
    /\ ~Blocked(h.req.url) /\ ~Down(h.req.url)
    /\ IF TargetReached
       THEN /\ flight' = flight \ {h}
            /\ sink' = sink
       ELSE /\ flight' = (flight \ {h}) \cup {At(h, "detail_pushed")}
            /\ sink' = CountUp(sink, {h.req.url})
    /\ hist' = [hist EXCEPT !.fetched = CountUpTo2(@, {h.req.url})]
    /\ UNCHANGED <<cfgVars, mst, mainPc,
                   queue, saved, seenUrls, sessionCookies, userAgent, cookieString,
                   handshakes, botCheck>>

\* After await Dataset.pushData(item): saved++
DetailPushed(h) ==
    /\ prog = "hybrid" /\ h \in flight /\ h.pc = "detail_pushed"
    /\ saved' = saved + 1
    /\ flight' = flight \ {h}
    /\ UNCHANGED <<cfgVars, mst, mainPc,
                   queue, sink, seenUrls, sessionCookies, userAgent, cookieString,
                   handshakes, botCheck, hist>>

\* crawler.run resolves: the queue is empty and no handler is running.
CrawlFinished ==
    /\ prog = "hybrid" /\ mainPc = "crawl"
    /\ queue = {} /\ flight = {}
    /\ mainPc' = "done"
    /\ UNCHANGED <<cfgVars, mst, queue, flight,
                   saved, sink, seenUrls, sessionCookies, userAgent, cookieString,
                   handshakes, botCheck, hist>>

\* The exit code of Actor.exit() called without arguments.
ActorExitCode == 0
\* finally { await Actor.exit(); }: reached when the try block has returned
\* and when its catch has rethrown.  Actor.exit() ends the process with its
\* exit code, so the rejection of main() never reaches main().catch and its
\* process.exit(1).
ActorExit ==
    /\ prog = "hybrid" /\ mainPc \in {"done", "failed"} /\ out = NoOut
    /\ out' = [by |-> "Actor.exit", code |-> ActorExitCode]
    /\ UNCHANGED <<prog, RESULTS_WANTED, MAX_PAGES, collectDetails, dedupe, initial, input,
                   mainPc, queue, flight, saved, sink, seenUrls, sessionCookies,
                   userAgent, cookieString, handshakes, botCheck, mst, hist>>

NextHybrid ==
    \/ AcquireInitial
    \/ ActorExit
    \/ InitialCookies
    \/ InitialUserAgent
    \/ CrawlFinished
    \/ Dispatch
    \/ \E h \in flight : RespondBlocked(h)
    \/ \E h \in flight : ReacquireCookies(h)
    \/ \E h \in flight : ReacquireUserAgent(h)
    \/ \E h \in flight : RespondList(h)
    \/ \E h \in flight : ListEnqueued(h)
    \/ \E h \in flight : ListPushed(h)
    \/ \E h \in flight : RespondDetail(h)
    \/ \E h \in flight : DetailPushed(h)

SpecHybrid == InitHybrid /\ [][NextHybrid]_vars

\* The same pipeline against a site that blocks some URLs for good, on a
\* crawl of one page per search.
Stubborn == {ListUrl("A", 1), DetailUrl(1)}
InitRecovery ==
    /\ prog = "hybrid"
    /\ RESULTS_WANTED \in {1, MaxTarget}
    /\ MAX_PAGES = 1
    /\ collectDetails \in BOOLEAN
    /\ dedupe = TRUE
    /\ mst = NoMain
    /\ initial \in SeedLists
    /\ mainPc = "start"
    /\ queue = {}
    /\ flight = {}
    /\ saved = 0
    /\ sink = [u \in DetailUrls |-> 0]
    /\ seenUrls = {}
    /\ sessionCookies = 0
    /\ userAgent = 0
    /\ cookieString = 0
    /\ handshakes = 0
    /\ botCheck \in {[u \in {x} |-> "always"] : x \in Stubborn}
    /\ hist = NoHist
    /\ input = NoInput /\ out = NoOut

SpecRecovery == InitRecovery /\ [][NextHybrid]_vars

\* The same pipeline against a site that blocks two URLs for good: the list
\* page of search B and the detail page of job 1, found on the page of A.
Besieged == {ListUrl("B", 1), DetailUrl(1)}
InitSiege ==
    /\ prog = "hybrid"
    /\ RESULTS_WANTED \in {1, MaxTarget}
    /\ MAX_PAGES = 1
    /\ collectDetails \in BOOLEAN
    /\ dedupe = TRUE
    /\ mst = NoMain
    /\ initial = <<ListUrl("A", 1), ListUrl("B", 1)>>
    /\ mainPc = "start"
    /\ queue = {}
    /\ flight = {}
    /\ saved = 0
    /\ sink = [u \in DetailUrls |-> 0]
    /\ seenUrls = {}
    /\ sessionCookies = 0
    /\ userAgent = 0
    /\ cookieString = 0
    /\ handshakes = 0
    /\ botCheck = [u \in Besieged |-> "always"]
    /\ hist = NoHist
    /\ input = NoInput /\ out = NoOut

SpecSiege == InitSiege /\ [][NextHybrid]_vars

\* The same pipeline against a site of which one URL is out of reach, from
\* the first fetch on or after one answer with the bot-check page.
InitOutage ==
    /\ prog = "hybrid"
    /\ RESULTS_WANTED \in {1, MaxTarget}
    /\ MAX_PAGES = 1
    /\ collectDetails \in BOOLEAN
    /\ dedupe = TRUE
    /\ mst = NoMain
    /\ initial \in SeedLists
    /\ mainPc = "start"
    /\ queue = {}
    /\ flight = {}
    /\ saved = 0
    /\ sink = [u \in DetailUrls |-> 0]
    /\ seenUrls = {}
    /\ sessionCookies = 0
    /\ userAgent = 0
    /\ cookieString = 0
    /\ handshakes = 0
    /\ botCheck \in {[u \in {x} |-> s] : x \in Stubborn, s \in {"down", "once, then down"}}
    /\ hist = NoHist
    /\ input = NoInput /\ out = NoOut

NextOutage == NextHybrid \/ \E h \in flight : RespondError(h)
SpecOutage == InitOutage /\ [][NextOutage]_vars

\* ------------------------------------------------------------- src/main.js
pwListConcurrency == 2
htmlListConcurrency == 2

\* The "Siguiente" link of a list page; NoUrl: the page has none.
NextLink(url) == IF url = ListUrl("A", 1) THEN ListUrl("A", 2) ELSE NoUrl
\* The detail pages that yield a title.
Titled == {DetailUrl(1), DetailUrl(2), DetailUrl(4)}
\* The API's answer for a page of the search: job ids, and totalPages.
ApiPage(page) ==
    [items |-> CASE page = 1 -> <<1, 2>> [] page = 2 -> <<2, 3, 4>> [] OTHER -> <<>>,
     totalPages |-> 2]

\* a block test that never fires
isBlockedNever(url) == FALSE
\* isBlocked(html), on the document the site gives for url
isBlocked(url) == Blocked(url)

\* a link loop that never consults the seen set
AddLinksUnchecked(links, found, seen) ==
    [found |-> found \cup Range(Slice(links, Max(0, RESULTS_WANTED * 3 - Cardinality(found)))),
     seen |-> seen]
\* for (const link of links) { if (set.size >= cfg.maxItems * 3) break;
\*   if (cfg.dedupe && state.seenUrls.has(link)) continue;
\*   set.add(link); if (cfg.dedupe) state.seenUrls.add(link); }
RECURSIVE AddLinks(_, _, _)
AddLinks(links, found, seen) ==
    IF links = <<>> \/ Cardinality(found) >= RESULTS_WANTED * 3
    THEN [found |-> found, seen |-> seen]
    ELSE IF dedupe /\ Head(links) \in seen
    THEN AddLinks(Tail(links), found, seen)
    ELSE AddLinks(Tail(links), found \cup {Head(links)},
                  IF dedupe THEN seen \cup {Head(links)} ELSE seen)

\* findNextPageCheerio: the "Siguiente" link, else the page parameter plus one.
findNextPageCheerio(url) == IF NextLink(url) # NoUrl THEN NextLink(url) ELSE [url EXCEPT !.n = @ + 1]

Seeds == {Request(initial[i], "LIST", 1) : i \in 1..Len(initial)}
Details(urls) == {Request(u, "DETAIL", 1) : u \in urls}

InitMain ==
    /\ prog = "main"
    /\ RESULTS_WANTED \in {1, MaxTarget}
    /\ MAX_PAGES \in {1, MaxPageCeiling}
    /\ collectDetails = TRUE
    /\ dedupe \in BOOLEAN
    /\ initial \in SeedLists
    /\ mainPc = "start"
    /\ queue = {}
    /\ flight = {}
    /\ saved = 0
    /\ sink = [u \in DetailUrls |-> 0]
    /\ seenUrls = {}
    /\ sessionCookies = 0
    /\ userAgent = 0
    /\ cookieString = 0
    /\ handshakes = 0
    /\ botCheck \in [{ListUrl("A", 1), DetailUrl(1)} -> {"no", "once", "always"}]
    /\ \E a \in {"nocreds", "tokenfail", "ok"}, f \in {0, 1, 2} :
        /\ a # "ok" => f = 0
        /\ mst = [NoMain EXCEPT !.api = a, !.apiFail = f]
    /\ hist = NoHist
    /\ input = NoInput /\ out = NoOut

\* Actor.main after a phase: the next phase runs while saved < maxItems.
\* Both later phases start a list crawler on the start URLs.
EnterPhase(next) ==
    IF saved' < RESULTS_WANTED
    THEN /\ mainPc' = next
         /\ queue' = Seeds
    ELSE /\ mainPc' = "done"
         /\ queue' = {}

\* an API phase that runs on the credentials alone
apiTokenUnchecked == mst.api # "nocreds"
\* if (apiToken): tryGetToken(apiCreds).catch(() => null) gave a token
apiToken == mst.api = "ok"

\* getApiCreds / tryGetToken: without credentials or a token the API phase
\* is skipped.
MainStart ==
    /\ prog = "main" /\ mainPc = "start"
    /\ IF apiToken
       THEN /\ mainPc' = "api_page"
            /\ mst' = [mst EXCEPT !.page = 1]
            /\ queue' = queue
       ELSE /\ mst' = mst
            /\ saved' = saved
            /\ EnterPhase("pw_list")
    /\ saved' = saved
    /\ UNCHANGED <<cfgVars, flight, sink, seenUrls, sessionCookies, userAgent,
                   cookieString, handshakes, botCheck, hist>>

\* runApiHarvest: the while test, then fetchApiPage, which throws on a
\* 401, 403 or 5xx answer; nothing catches it before Actor.main.
ApiFetchPage ==
    /\ prog = "main" /\ mainPc = "api_page"
    /\ saved' = saved
    /\ IF ~(saved < RESULTS_WANTED /\ mst.page <= MAX_PAGES)
       THEN mst' = mst /\ EnterPhase("pw_list")
       ELSE IF mst.apiFail = mst.page
       THEN mst' = mst /\ mainPc' = "aborted" /\ queue' = queue
       ELSE IF ApiPage(mst.page).items = <<>>
       THEN mst' = mst /\ EnterPhase("pw_list")
       ELSE /\ mst' = [mst EXCEPT !.items = ApiPage(mst.page).items]
            /\ mainPc' = "api_items"
            /\ queue' = queue
    /\ UNCHANGED <<cfgVars, flight, sink, seenUrls, sessionCookies, userAgent,
                   cookieString, handshakes, botCheck, hist>>

\* One turn of for (const item of items), or the end of the loop body.
ApiItem ==
    /\ prog = "main" /\ mainPc = "api_items"
    /\ IF mst.items = <<>> \/ saved >= RESULTS_WANTED
       THEN /\ UNCHANGED <<saved, sink, seenUrls>>
            /\ IF mst.page >= ApiPage(mst.page).totalPages
               THEN mst' = [mst EXCEPT !.items = <<>>] /\ EnterPhase("pw_list")
               ELSE /\ mst' = [mst EXCEPT !.items = <<>>, !.page = @ + 1]
                    /\ mainPc' = "api_page"
                    /\ queue' = queue
       ELSE LET id == Head(mst.items)
                link == DetailUrl(id)
            IN
            /\ UNCHANGED <<mainPc, queue>>
            /\ IF dedupe /\ (id \in mst.seenIds \/ link \in seenUrls)
               THEN /\ mst' = [mst EXCEPT !.items = Tail(@)]
                    /\ UNCHANGED <<saved, sink, seenUrls>>
               ELSE /\ mst' = [mst EXCEPT !.items = Tail(@),
                                         !.seenIds = IF dedupe THEN @ \cup {id} ELSE @]
                    /\ seenUrls' = IF dedupe THEN seenUrls \cup {link} ELSE seenUrls
                    /\ sink' = CountUp(sink, {link})
                    /\ saved' = saved + 1
    /\ UNCHANGED <<cfgVars, flight, sessionCookies, userAgent, cookieString,
                   handshakes, botCheck, hist>>

\* maxConcurrency of the crawler that runs in the current phase
PoolSize ==
    CASE mainPc = "pw_list" -> pwListConcurrency
      [] mainPc = "html_list" -> htmlListConcurrency
      [] OTHER -> Workers

\* preNavigationHooks of the Playwright phase's detail crawler
PwDetailHook(r) ==
    [r EXCEPT !.hCookie = IF sessionCookies # 0 THEN sessionCookies ELSE @,
              !.hUA = userAgent]

\* A crawler of main.js takes a request.  Every page the Playwright list
\* crawler opens is a browser context of its own, numbered by handshakes.
DispatchMain ==
    /\ prog = "main" /\ mainPc \in {"pw_list", "pw_detail", "html_list", "html_detail"}
    /\ Cardinality(flight) < PoolSize
    /\ \E r \in queue :
        /\ queue' = queue \ {r}
        /\ IF mainPc = "pw_list"
           THEN /\ handshakes' = handshakes + 1
                /\ flight' = flight \cup {Handler("goto", r, handshakes + 1)}
           ELSE /\ handshakes' = handshakes
                /\ flight' = flight \cup
                      {Handler("fetch", IF mainPc = "pw_detail" THEN PwDetailHook(r) ELSE r, 0)}
    /\ UNCHANGED <<cfgVars, mainPc, saved, sink, seenUrls, sessionCookies, userAgent,
                   cookieString, botCheck, mst, hist>>

\* Where the Playwright list handler goes on after page.goto and after each
\* of its reads: the cookies are read while sessionCookies is empty, the
\* user agent while userAgent is the default, then the links.
PwAfterCookies == IF userAgent = 0 THEN "pw_ua" ELSE "pw_links"

\* page.goto and the wait are over: the document is whatever the site gave.
PwLoaded(h) ==
    /\ prog = "main" /\ h \in flight /\ h.pc = "goto"
    /\ botCheck' = Fetched(h.req.url)
    /\ flight' = (flight \ {h}) \cup
          {[h EXCEPT !.blk = isBlocked(h.req.url),
                     !.pc = IF sessionCookies = 0 THEN "pw_cookies" ELSE PwAfterCookies]}
    /\ UNCHANGED <<cfgVars, mainPc, queue, saved, sink, seenUrls, sessionCookies,
                   userAgent, cookieString, handshakes, mst, hist>>

\* const cookies = await page.context().cookies();
\* if (cookies?.length) sessionCookies = cookies;
PwCookies(h) ==
    /\ prog = "main" /\ h \in flight /\ h.pc = "pw_cookies"
    /\ \E got \in {0, h.n} : sessionCookies' = IF got # 0 THEN got ELSE sessionCookies
    /\ flight' = (flight \ {h}) \cup {At(h, PwAfterCookies)}
    /\ UNCHANGED <<cfgVars, mainPc, queue, saved, sink, seenUrls, userAgent,
                   cookieString, handshakes, botCheck, mst, hist>>

\* const ua = await page.evaluate(...); if (ua) userAgent = ua;
PwUserAgent(h) ==
    /\ prog = "main" /\ h \in flight /\ h.pc = "pw_ua"
    /\ userAgent' = h.n
    /\ flight' = (flight \ {h}) \cup {At(h, "pw_links")}
    /\ UNCHANGED <<cfgVars, mainPc, queue, saved, sink, seenUrls, sessionCookies,
                   cookieString, handshakes, botCheck, mst, hist>>

\* if (detailUrls.size >= cfg.maxItems * 2 || currentPage >= cfg.maxPages) return;
\* then the "Siguiente" link alone gives the next page.
PwPagination(q, r, found) ==
    IF Cardinality(found) >= RESULTS_WANTED * 2 \/ r.pageNo >= MAX_PAGES
       \/ NextLink(r.url) = NoUrl
    THEN q
    ELSE q \cup {Request(NextLink(r.url), "LIST", r.pageNo + 1)}

\* The links of the page, the loop over them, the next page.  No block
\* test is made on the page.
PwLinks(h) ==
    /\ prog = "main" /\ h \in flight /\ h.pc = "pw_links"
    /\ LET doc == LinksOn(h.req.url)
           got == AddLinks(doc, mst.found, seenUrls)
       IN
        /\ mst' = [mst EXCEPT !.found = got.found]
        /\ seenUrls' = got.seen
        /\ queue' = PwPagination(queue, h.req, got.found)
        /\ hist' = [hist EXCEPT
              !.disc = CountUpTo2(@, Range(doc)),
              !.lists = @ \cup {h.req.url},
              !.fromBlocked = @ \/ (h.blk /\ (got.found # mst.found \/ queue' # queue))]
    /\ flight' = flight \ {h}
    /\ UNCHANGED <<cfgVars, mainPc, saved, sink, sessionCookies, userAgent,
                   cookieString, handshakes, botCheck>>

\* HTML phase: if (pageIdx >= cfg.maxPages || state.saved >= cfg.maxItems) return;
\* next = findNextPageCheerio; enqueue it unless visitedListPages has it.
HtmlNext(r) ==
    IF r.pageNo >= MAX_PAGES \/ saved >= RESULTS_WANTED
       \/ findNextPageCheerio(r.url) \in mst.visited
    THEN NoUrl
    ELSE findNextPageCheerio(r.url)

\* The HTML list handler: the block test first, then links and next page.
RespondListHtml(h) ==
    /\ prog = "main" /\ mainPc = "html_list" /\ h \in flight /\ h.pc = "fetch"
    /\ botCheck' = Fetched(h.req.url)
    /\ flight' = flight \ {h}
    /\ IF isBlocked(h.req.url)
       THEN /\ mst' = [mst EXCEPT !.blocked = @ + 1]
            /\ hist' = [hist EXCEPT !.blk = @ \cup {h.req.url}, !.nblk = @ + 1]
            /\ UNCHANGED <<seenUrls, queue>>
       ELSE LET doc == LinksOn(h.req.url)
                got == AddLinks(doc, mst.found, seenUrls)
                next == HtmlNext(h.req)
            IN
            /\ seenUrls' = got.seen
            /\ hist' = [hist EXCEPT !.disc = CountUpTo2(@, Range(doc)),
                                    !.lists = @ \cup {h.req.url}]
            /\ mst' = [mst EXCEPT !.found = got.found,
                                 !.visited = IF next # NoUrl THEN @ \cup {next} ELSE @]
            /\ queue' = IF next # NoUrl
                         THEN queue \cup {Request(next, "LIST", h.req.pageNo + 1)}
                         ELSE queue
    /\ UNCHANGED <<cfgVars, mainPc, saved, sink, sessionCookies, userAgent,
                   cookieString, handshakes>>

\* The detail handler of both phases: nothing once the target is reached;
\* a blocked document counts and is dropped; a record without a title is
\* dropped; else await Actor.pushData(job).
RespondDetailMain(h) ==
    /\ prog = "main" /\ mainPc \in {"pw_detail", "html_detail"}
    /\ h \in flight /\ h.pc = "fetch"
    /\ botCheck' = Fetched(h.req.url)
    /\ LET got == [hist EXCEPT !.fetched = CountUpTo2(@, {h.req.url})] IN
       IF saved >= RESULTS_WANTED
       THEN /\ flight' = flight \ {h}
            /\ hist' = got
            /\ UNCHANGED <<mst, sink>>
       ELSE IF isBlocked(h.req.url)
       THEN /\ flight' = flight \ {h}
            /\ mst' = [mst EXCEPT !.blocked = @ + 1]
            /\ hist' = [got EXCEPT !.blk = @ \cup {h.req.url}, !.nblk = @ + 1]
            /\ sink' = sink
       ELSE IF h.req.url \notin Titled
       THEN /\ flight' = flight \ {h}
            /\ hist' = got
            /\ UNCHANGED <<mst, sink>>
       ELSE /\ flight' = (flight \ {h}) \cup {At(h, "detail_pushed")}
            /\ sink' = CountUp(sink, {h.req.url})
            /\ hist' = got
            /\ mst' = mst
    /\ UNCHANGED <<cfgVars, mainPc, queue, saved, seenUrls, sessionCookies, userAgent,
                   cookieString, handshakes>>

\* After await Actor.pushData(job): state.saved += 1
DetailPushedMain(h) ==
    /\ prog = "main" /\ h \in flight /\ h.pc = "detail_pushed"
    /\ saved' = saved + 1
    /\ flight' = flight \ {h}
    /\ UNCHANGED <<cfgVars, mainPc, queue, sink, seenUrls, sessionCookies, userAgent,
                   cookieString, handshakes, botCheck, mst, hist>>

\* listCrawler.run resolves: without detail URLs the phase returns, else
\* the detail crawler runs on all of them.
ListCrawlerDone ==
    /\ prog = "main" /\ mainPc \in {"pw_list", "html_list"}
    /\ queue = {} /\ flight = {}
    /\ saved' = saved
    /\ IF mst.found # {}
       THEN /\ mainPc' = IF mainPc = "pw_list" THEN "pw_detail" ELSE "html_detail"
            /\ queue' = Details(mst.found)
            /\ hist' = [hist EXCEPT !.disp = CountUp(@, mst.found)]
            /\ mst' = mst
       ELSE /\ hist' = hist
            /\ mst' = [mst EXCEPT !.visited = {}]
            /\ IF mainPc = "pw_list" THEN EnterPhase("html_list")
               ELSE mainPc' = "done" /\ queue' = {}
    /\ UNCHANGED <<cfgVars, flight, sink, seenUrls, sessionCookies, userAgent,
                   cookieString, handshakes, botCheck>>

\* detailCrawler.run resolves: the phase is over.
DetailCrawlerDone ==
    /\ prog = "main" /\ mainPc \in {"pw_detail", "html_detail"}
    /\ queue = {} /\ flight = {}
    /\ saved' = saved
    /\ mst' = [mst EXCEPT !.found = {}, !.visited = {}]
    /\ IF mainPc = "pw_detail" THEN EnterPhase("html_list")
       ELSE mainPc' = "done" /\ queue' = {}
    /\ UNCHANGED <<cfgVars, flight, sink, seenUrls, sessionCookies, userAgent,
                   cookieString, handshakes, botCheck, hist>>

NextMain ==
    \/ MainStart
    \/ ApiFetchPage
    \/ ApiItem
    \/ DispatchMain
    \/ \E h \in flight : PwLoaded(h)
    \/ \E h \in flight : PwCookies(h)
    \/ \E h \in flight : PwUserAgent(h)
    \/ \E h \in flight : PwLinks(h)
    \/ \E h \in flight : RespondListHtml(h)
    \/ \E h \in flight : RespondDetailMain(h)
    \/ \E h \in flight : DetailPushedMain(h)
    \/ ListCrawlerDone
    \/ DetailCrawlerDone

SpecMain == InitMain /\ [][NextMain]_vars

\* ------------------------------------------------------------ both programs
Init == InitHybrid \/ InitMain
Next == NextHybrid \/ NextMain
Spec == Init /\ [][Next]_vars

\* ------------------------------------------------------------ termination
\* Every page of the site.
SitePages == {ListUrl(s, n) : s \in {"A", "B", "C"}, n \in {1, 2}} \cup DetailUrls

\* Either program against a site whose bot check answers every fetch of
\* every page.
InitBlockade ==
    /\ prog \in {"hybrid", "main"}
    /\ RESULTS_WANTED = MaxTarget
    /\ MAX_PAGES = MaxPageCeiling
    /\ collectDetails = TRUE
    /\ dedupe = TRUE
    /\ mst = IF prog = "main" THEN [NoMain EXCEPT !.api = "nocreds"] ELSE NoMain
    /\ initial \in SeedLists
    /\ mainPc = "start"
    /\ queue = {}
    /\ flight = {}
    /\ saved = 0
    /\ sink = [u \in DetailUrls |-> 0]
    /\ seenUrls = {}
    /\ sessionCookies = 0
    /\ userAgent = 0
    /\ cookieString = 0
    /\ handshakes = 0
    /\ botCheck = [u \in SitePages |-> "always"]
    /\ hist = NoHist
    /\ input = NoInput /\ out = NoOut

\* Either program against a site that never blocks, crawled up to the page
\* ceiling: list pages follow one another by the synthesized successor.
InitPaged ==
    /\ InitHybrid \/ InitMain
    /\ MAX_PAGES = MaxPageCeiling
    /\ \A u \in DOMAIN botCheck : botCheck[u] = "no"

\* The runs whose fetches answer, are blocked, or fail.
InitLive == InitPaged \/ InitOutage \/ InitBlockade
NextLive == NextOutage \/ NextMain
\* The event loop runs a continuation that is ready, and every fetch that
\* was started returns: some step is taken as long as one is possible.
SpecLive == InitLive /\ [][NextLive]_vars /\ WF_vars(NextLive)

\* ------------------------------------------------- a dataset that may reject
\* The dataset may reject an append that carries the record of job 2: the
\* promise of pushData rejects and nothing is stored.
Rejecting == {DetailUrl(2)}

\* maxRequestRetries of the detail crawlers of main.js
detailRequestRetries == 2

\* a handler that goes on to its counter update after a rejected append
RejectedGoesOn(h, next) == {next}
\* await pushData(...) rejects: the await throws, and the statements after
\* it (the counter update first) do not run.  next is where the handler
\* would have gone on.
Rejected(h, next) == {}

\* Hybrid DETAIL: the rejection is caught by the handler's own try/catch and
\* logged; the handler returns, so the crawler does not retry the request.
DetailPushFailed(h) ==
    /\ prog = "hybrid" /\ h \in flight /\ h.pc = "fetch" /\ h.req.label = "DETAIL"
    /\ ~Blocked(h.req.url) /\ ~Down(h.req.url)
    /\ ~TargetReached
    /\ h.req.url \in Rejecting
    /\ flight' = (flight \ {h}) \cup Rejected(h, At(h, "detail_pushed"))
    /\ hist' = [hist EXCEPT !.fetched = CountUpTo2(@, {h.req.url})]
    /\ UNCHANGED <<cfgVars, mst, mainPc, queue, saved, sink, seenUrls, sessionCookies,
                   userAgent, cookieString, handshakes, botCheck>>

\* Hybrid LIST without detail collection: nothing catches the rejection, the
\* handler throws after findJobLinks has marked the links seen, and the
\* crawler retries the request.
ListPushFailed(h) ==
    /\ prog = "hybrid" /\ h \in flight /\ h.pc = "fetch" /\ h.req.label = "LIST"
    /\ ~Blocked(h.req.url) /\ ~Down(h.req.url)
    /\ ~collectDetails
    /\ LET r == h.req
           doc == LinksOn(r.url)
           links == findJobLinks(doc)
           part == Remaining(links)
       IN
        /\ Range(part) \cap Rejecting # {}
        /\ seenUrls' = seenUrls \cup Range(links)
        /\ hist' = [hist EXCEPT !.disc = CountUpTo2(@, Range(doc)),
                                !.lists = @ \cup {r.url},
                                !.failed = IF Abandoned(r) THEN @ \cup {r.url} ELSE @]
        /\ queue' = Reclaim(queue, r)
        /\ flight' = (flight \ {h}) \cup Rejected(h, Handler("list_pushed", r, Len(part)))
    /\ UNCHANGED <<cfgVars, mst, mainPc, saved, sink, sessionCookies, userAgent,
                   cookieString, handshakes, botCheck>>

\* main.js detail handlers: the rejection leaves the handler, and the detail
\* crawler retries the request up to its maxRequestRetries.
DetailPushFailedMain(h) ==
    /\ prog = "main" /\ mainPc \in {"pw_detail", "html_detail"}
    /\ h \in flight /\ h.pc = "fetch"
    /\ saved < RESULTS_WANTED
    /\ ~isBlocked(h.req.url)
    /\ h.req.url \in Titled \cap Rejecting
    /\ botCheck' = Fetched(h.req.url)
    /\ queue' = IF h.req.retryCount < detailRequestRetries
                THEN queue \cup {[h.req EXCEPT !.retryCount = @ + 1]}
                ELSE queue
    /\ flight' = (flight \ {h}) \cup Rejected(h, At(h, "detail_pushed"))
    /\ hist' = [hist EXCEPT !.fetched = CountUpTo2(@, {h.req.url})]
    /\ UNCHANGED <<cfgVars, mainPc, saved, sink, seenUrls, sessionCookies, userAgent,
                   cookieString, handshakes, mst>>

\* runApiHarvest: the item was marked seen, then await Actor.pushData(payload)
\* rejects; nothing catches it before Actor.main.
ApiPushFailed ==
    /\ prog = "main" /\ mainPc = "api_items"
    /\ mst.items # <<>> /\ saved < RESULTS_WANTED
    /\ LET id == Head(mst.items)
           link == DetailUrl(id)
       IN
        /\ link \in Rejecting
        /\ ~(dedupe /\ (id \in mst.seenIds \/ link \in seenUrls))
        /\ mst' = [mst EXCEPT !.seenIds = IF dedupe THEN @ \cup {id} ELSE @]
        /\ seenUrls' = IF dedupe THEN seenUrls \cup {link} ELSE seenUrls
    /\ mainPc' = "aborted"
    /\ UNCHANGED <<cfgVars, queue, flight, saved, sink, sessionCookies, userAgent,
                   cookieString, handshakes, botCheck, hist>>

\* Both programs on a crawl of one page per search, with such a dataset.
InitSink == Init /\ MAX_PAGES = 1
NextSink ==
    \/ Next
    \/ \E h \in flight : DetailPushFailed(h)
    \/ \E h \in flight : ListPushFailed(h)
    \/ \E h \in flight : DetailPushFailedMain(h)
    \/ ApiPushFailed
SpecSink == InitSink /\ [][NextSink]_vars

\* ------------------------------------------------------ record extraction
\* A JavaScript value is modelled by a string: "undef" (undefined, or a key
\* that is not there), "null", "" (the empty string), or a text that names
\* where it came from: "L" the JSON-LD JobPosting, "D" an element a selector
\* found, "B" other text of the body, "A" the API, "U" an absolute URL.
Falsy == {"undef", "null", ""}
\* a || b
Or(a, b) == IF a \in Falsy THEN b ELSE a
\* The text of a piece of HTML (cleanText, .text(), stripHtml, stripWhitespace).
TextOf(html) ==
    CASE html = "L" -> "textL"
      [] html = "D" -> "textD"
      [] html = "B" -> "textB"
      [] html = "A" -> "textA"
      [] OTHER -> ""

\* What the JobPosting script of a page can supply, what the selectors and
\* text heuristics can find in its DOM.
LdFields == {"title", "company", "location", "date_posted", "description_html"}
DomFields == LdFields \cup {"salary", "job_type"}
\* The detail documents: with or without a JobPosting, each of its fields
\* there or not, each DOM marker there or not, other body text or none.
DetailDocs ==
    {[kind |-> "detail", url |-> "U", hasLd |-> b, ld |-> l, dom |-> d, body |-> t] :
        b \in BOOLEAN, l \in [LdFields -> {"undef", "L"}],
        d \in [DomFields -> {"", "D"}], t \in {"", "B"}}
WellFormedDoc(doc) == doc.hasLd \/ \A f \in LdFields : doc.ld[f] = "undef"

\* extractFromJsonLd (hybrid): null without a JobPosting, else each field || null
extractFromJsonLd(doc) ==
    IF doc.hasLd
    THEN [title |-> Or(doc.ld.title, "null"),
          company |-> Or(doc.ld.company, "null"),
          date_posted |-> Or(doc.ld.date_posted, "null"),
          description_html |-> Or(doc.ld.description_html, "null"),
          location |-> Or(doc.ld.location, "null"),
          salary |-> "undef", job_type |-> "undef", description_text |-> "undef"]
    ELSE [title |-> "undef", company |-> "undef", date_posted |-> "undef",
          description_html |-> "undef", location |-> "undef",
          salary |-> "undef", job_type |-> "undef", description_text |-> "undef"]

\* extractJobDetails (hybrid): data starts as the JSON-LD fields; title,
\* company, location and description are filled when empty; salary and
\* date_posted are assigned from the DOM whatever data holds.
extractJobDetails(doc) ==
    LET data == extractFromJsonLd(doc)
        dom == doc.dom
        noDesc == data.description_html \in Falsy
    IN  [title |-> IF data.title \in Falsy THEN Or(dom.title, "null") ELSE data.title,
         company |-> IF data.company \in Falsy THEN Or(dom.company, "null") ELSE data.company,
         location |-> IF data.location \in Falsy /\ dom.location # ""
                      THEN Or(dom.location, "null") ELSE data.location,
         salary |-> Or(dom.salary, "null"),
         job_type |-> IF dom.job_type # "" THEN Or(dom.job_type, "null") ELSE data.job_type,
         date_posted |-> Or(dom.date_posted, "null"),
         description_html |-> IF noDesc /\ dom.description_html # ""
                              THEN dom.description_html ELSE data.description_html,
         description_text |-> IF noDesc /\ dom.description_html # ""
                              THEN TextOf(dom.description_html) ELSE data.description_text]

\* const item = { title: data.title || null, ..., url: request.url }
HybridItem(data, url) ==
    [title |-> Or(data.title, "null"), company |-> Or(data.company, "null"),
     location |-> Or(data.location, "null"), salary |-> Or(data.salary, "null"),
     job_type |-> Or(data.job_type, "null"), date_posted |-> Or(data.date_posted, "null"),
     description_html |-> Or(data.description_html, "null"),
     description_text |-> Or(data.description_text, "null"), url |-> url]

\* toPush.map((u) => ({ url: u, _source: 'infojobs.net' }))
BatchItem(url) ==
    [title |-> "undef", company |-> "undef", location |-> "undef", salary |-> "undef",
     job_type |-> "undef", date_posted |-> "undef", description_html |-> "undef",
     description_text |-> "undef", url |-> url]

\* normalizeJobRecord: url and title as given, the other fields || null
normalizeJobRecord(job) ==
    [url |-> job.url, title |-> job.title,
     company |-> Or(job.company, "null"), location |-> Or(job.location, "null"),
     salary |-> Or(job.salary, "null"), job_type |-> Or(job.job_type, "null"),
     date_posted |-> Or(job.date_posted, "null"),
     description_html |-> Or(job.description_html, "null"),
     description_text |-> Or(job.description_text, "null")]

\* parseJsonLdJob(...) || {}
parseJsonLdJob(doc) == IF doc.hasLd THEN doc.ld ELSE [f \in LdFields |-> "undef"]

\* $('body').text(): every element's text is text of the body
BodyText(doc) ==
    IF doc.body # "" \/ \E f \in DomFields : doc.dom[f] # "" THEN "textB" ELSE ""

\* extractJobFromDetail (main.js): each field is the JSON-LD value, else the
\* DOM marker, else null; the description text is read from the DOM alone.
extractJobFromDetail(doc) ==
    LET jsonLd == parseJsonLdJob(doc)
        dom == doc.dom
        descText == Or(Or(TextOf(dom.description_html), BodyText(doc)), "null")
    IN  normalizeJobRecord(
          [url |-> doc.url,
           title |-> Or(jsonLd.title, Or(dom.title, "null")),
           company |-> Or(jsonLd.company, Or(dom.company, "null")),
           location |-> Or(jsonLd.location, Or(dom.location, "null")),
           date_posted |-> Or(jsonLd.date_posted, Or(dom.date_posted, "null")),
           description_html |-> Or(jsonLd.description_html, Or(dom.description_html, "null")),
           description_text |-> IF descText \in Falsy THEN "null" ELSE descText,
           salary |-> "undef", job_type |-> "undef"])

\* The items of an API page, and the detail the API gives for one (or {}
\* when fetchApiDetail failed).
ApiItems ==
    {[kind |-> "api", link |-> l, title |-> t, company |-> c, description |-> d] :
        l \in {"undef", "U"}, t \in {"undef", "A"}, c \in {"undef", "A"}, d \in {"undef", "A"}}
\* runApiHarvest: payload = normalizeJobRecord({url: item.link, title: item.title, ...})
ApiPayload(item) ==
    normalizeJobRecord(
      [url |-> item.link, title |-> item.title, company |-> item.company,
       location |-> "undef", salary |-> "undef", job_type |-> "undef",
       date_posted |-> "undef", description_html |-> item.description,
       description_text |-> IF item.description \in Falsy THEN "null"
                            ELSE TextOf(item.description)])

\* The links a list page gives to the batch path.
BatchLinks == {[kind |-> "link", url |-> "U"]}

\* ------------------------------------------------------- next-page URLs
\* Longest query string of a list URL, in parameters.
MaxQueryLen == 2
\* A query string is a sequence of parameters [k, v]; a value is a sequence
\* of characters.  The page values and the other parameters of the model:
PageValues == {<<>>, <<"0">>, <<"1">>, <<"3">>, <<"9">>, <<"0", "4">>, <<"1", "9">>}
Params ==
    {[k |-> "page", v |-> v] : v \in PageValues}
        \cup {[k |-> "q", v |-> <<"x">>], [k |-> "sort", v |-> <<"y">>]}
RECURSIVE SeqsUpTo(_, _)
SeqsUpTo(S, n) ==
    IF n = 0 THEN {<<>>}
    ELSE LET shorter == SeqsUpTo(S, n - 1) IN
         shorter \cup {Append(q, x) : q \in shorter, x \in S}
Queries == SeqsUpTo(Params, MaxQueryLen)
\* The list documents: the URL they were loaded from, and their next-page
\* link: none, one that resolves to a URL, or one that new URL() rejects.
ListDocs ==
    {[kind |-> "list", base |-> [path |-> "A", query |-> q], next |-> n] :
        q \in Queries,
        n \in {[t |-> "none"], [t |-> "bad"],
               [t |-> "href", url |-> [path |-> "A", query |-> <<[k |-> "p", v |-> <<"2">>]>>]]}}

DigitVal(c) ==
    CASE c = "0" -> 0 [] c = "1" -> 1 [] c = "2" -> 2 [] c = "3" -> 3 [] c = "4" -> 4
      [] c = "5" -> 5 [] c = "6" -> 6 [] c = "7" -> 7 [] c = "8" -> 8 [] c = "9" -> 9
DigitChar(d) ==
    CASE d = 0 -> "0" [] d = 1 -> "1" [] d = 2 -> "2" [] d = 3 -> "3" [] d = 4 -> "4"
      [] d = 5 -> "5" [] d = 6 -> "6" [] d = 7 -> "7" [] d = 8 -> "8" [] d = 9 -> "9"
\* parseInt(s) and Number(s) on a string of decimal digits
RECURSIVE parseInt(_)
parseInt(s) ==
    IF s = <<>> THEN 0
    ELSE 10 * parseInt(SubSeq(s, 1, Len(s) - 1)) + DigitVal(s[Len(s)])
\* (n).toString() and String(n), n >= 0
RECURSIVE toString(_)
toString(n) ==
    IF n < 10 THEN <<DigitChar(n)>>
    ELSE Append(toString(n \div 10), DigitChar(n % 10))

\* searchParams.get(k): the value of the first parameter named k, or null
RECURSIVE searchParamsGet(_, _)
searchParamsGet(q, k) ==
    IF q = <<>> THEN "null"
    ELSE IF Head(q).k = k THEN Head(q).v
    ELSE searchParamsGet(Tail(q), k)
\* The parameters of q that are not named k, in order.
RECURSIVE Without(_, _)
Without(q, k) ==
    IF q = <<>> THEN <<>>
    ELSE IF Head(q).k = k THEN Without(Tail(q), k)
    ELSE <<Head(q)>> \o Without(Tail(q), k)
\* searchParams.append(k, v) in the place of set
searchParamsAppend(q, k, v) == Append(q, [k |-> k, v |-> v])
\* searchParams.set(k, v): the first parameter named k gets the value and
\* the later ones go; without one, the parameter is appended.
RECURSIVE searchParamsSet(_, _, _)
searchParamsSet(q, k, v) ==
    IF q = <<>> THEN <<[k |-> k, v |-> v]>>
    ELSE IF Head(q).k = k THEN <<[k |-> k, v |-> v]>> \o Without(Tail(q), k)
    ELSE <<Head(q)>> \o searchParamsSet(Tail(q), k, v)

\* get('page') || '1' (hybrid), get('page') || 1 (main.js), as a number
CurrentPage(q) ==
    LET v == searchParamsGet(q, "page") IN
    IF v = "null" THEN 1 ELSE IF v = <<>> THEN 1 ELSE parseInt(v)
\* The URL with page set to the current page plus one.
NextPageUrl(base) ==
    [base EXCEPT !.query = searchParamsSet(@, "page", toString(CurrentPage(@) + 1))]
\* findNextPage (hybrid): the Siguiente link, resolved (null when it does
\* not resolve), else the generated URL.
findNextPageOf(doc) ==
    CASE doc.next.t = "href" -> [t |-> "url", url |-> doc.next.url]
      [] doc.next.t = "bad" -> [t |-> "null"]
      [] OTHER -> [t |-> "url", url |-> NextPageUrl(doc.base)]
\* findNextPageCheerio (main.js): the Siguiente link if it resolves, else
\* the generated URL.
findNextPageCheerioOf(doc) ==
    IF doc.next.t = "href" THEN [t |-> "url", url |-> doc.next.url]
    ELSE [t |-> "url", url |-> NextPageUrl(doc.base)]

\* ----------------------------------------------------------- actor input
\* results_wanted and max_pages as the input JSON may hold them: the key left
\* out, null, a number, or a string that is not a number.
RawNumbers == {-3, 0, 1, 5}
RawValues ==
    {[t |-> "undefined"], [t |-> "null"], [t |-> "text"]}
        \cup {[t |-> "num", v |-> n] : n \in RawNumbers}
RawInputs ==
    {[kind |-> "raw", results_wanted |-> rw, max_pages |-> mp] :
        rw \in RawValues, mp \in RawValues}
Num(n) == [t |-> "num", v |-> n]
\* Destructuring with a default: the default stands for undefined only.
Default(raw, d) == IF raw.t = "undefined" THEN Num(d) ELSE raw
\* +x and Number(x): null is 0, a string that is not a number is NaN.
ToNumber(raw) ==
    CASE raw.t = "null" -> Num(0)
      [] raw.t = "num" -> raw
      [] raw.t = "text" -> [t |-> "NaN"]
\* The defaults and fallbacks of the hybrid program and of main.js.
HybridResultsWantedDefault == 100
HybridMaxPagesDefault == 999
HybridMaxPagesNaN == 999
MainResultsWantedDefault == 100
MainMaxPagesDefault == 20
MainMaxItemsFallback == 50
MainMaxPagesFallback == 20
\* RESULTS_WANTED and MAX_PAGES of the hybrid program
HybridResultsWanted(raw) ==
    LET n == ToNumber(Default(raw, HybridResultsWantedDefault)) IN
    IF n.t = "num" THEN Num(Max(1, n.v)) ELSE [t |-> "MAX_SAFE_INTEGER"]
HybridMaxPages(raw) ==
    LET n == ToNumber(Default(raw, HybridMaxPagesDefault)) IN
    IF n.t = "num" THEN Num(Max(1, n.v)) ELSE Num(HybridMaxPagesNaN)
\* Number(x) || d: d for NaN and for 0
NumberOr(raw, d) ==
    LET n == ToNumber(raw) IN IF n.t = "num" /\ n.v # 0 THEN n.v ELSE d
\* maxItems and maxPages of normalizeInput (main.js)
maxItems(raw) ==
    Num(Max(1, NumberOr(Default(raw, MainResultsWantedDefault), MainMaxItemsFallback)))
maxPages(raw) ==
    Num(Max(1, NumberOr(Default(raw, MainMaxPagesDefault), MainMaxPagesFallback)))

\* -------------------------------------------------------- detail-link keys
\* An href as a list page may carry it: absolute or relative to the origin,
\* a path, an optional query and an optional fragment.  Optional parts are
\* sequences of zero or one string; strings are sequences of characters.
Origin == "https://www.infojobs.net"
HrefPaths == {<<"/", "a">>, <<"/", "b">>}
HrefQueries == {<<>>, <<<<>>>>, <<<<"x">>>>, <<<<"y">>>>}
HrefFragments == {<<>>, <<<<"f">>>>, <<<<"f", "?", "x">>>>}
Hrefs ==
    {[abs |-> a, path |-> p, query |-> q, frag |-> f] :
        a \in BOOLEAN, p \in HrefPaths, q \in HrefQueries, f \in HrefFragments}
HrefPairs == {[kind |-> "hrefs", a |-> a, b |-> b] : a \in Hrefs, b \in Hrefs}
\* The text of a URL: origin, path, ?query, #fragment
Serialize(u) ==
    (IF u.abs THEN <<Origin>> ELSE <<>>) \o u.path
        \o (IF u.query # <<>> THEN <<"?">> \o u.query[1] ELSE <<>>)
        \o (IF u.frag # <<>> THEN <<"#">> \o u.frag[1] ELSE <<>>)
\* The index of the first c in s, or Len(s) + 1
RECURSIVE IndexOf(_, _)
IndexOf(s, c) ==
    IF s = <<>> \/ Head(s) = c THEN 1 ELSE 1 + IndexOf(Tail(s), c)
\* s.split(c)[0]
SplitFirst(s, c) == SubSeq(s, 1, IndexOf(s, c) - 1)
After(s, c) == SubSeq(s, IndexOf(s, c) + 1, Len(s))
\* new URL(text, base): the fragment starts at the first #, the query at the
\* first ? before it; a text without origin takes the origin of the base.
ParseUrl(s) ==
    LET rel == IF s # <<>> /\ Head(s) = Origin THEN Tail(s) ELSE s
        beforeFrag == SplitFirst(rel, "#")
    IN  [abs |-> TRUE,
         path |-> SplitFirst(beforeFrag, "?"),
         query |-> IF IndexOf(beforeFrag, "?") <= Len(beforeFrag)
                   THEN <<After(beforeFrag, "?")>> ELSE <<>>,
         frag |-> IF IndexOf(rel, "#") <= Len(rel) THEN <<After(rel, "#")>> ELSE <<>>]
\* toAbs(href, base) == new URL(href, base).href
toAbs(s) == Serialize(ParseUrl(s))
\* toAbs(href, baseUrl) then abs.split('?')[0]
LinkKey(s) == SplitFirst(toAbs(s), "?")

\* ----------------------------------------------------- block classification
\* A document is its text, a sequence of letters; "J", "A", "S" and their
\* lower-case forms stand for the letters of the marker "JavaScript is
\* enabled", which main.js lists as 'javascript is enabled'.
MaxDocLen == 3
Letters == {"J", "j", "A", "a", "S", "s"}
toLowerChar(c) == CASE c = "J" -> "j" [] c = "A" -> "a" [] c = "S" -> "s" [] OTHER -> c
toLowerCase(s) == [i \in 1..Len(s) |-> toLowerChar(s[i])]
Texts == SeqsUpTo(Letters, MaxDocLen)
\* Two documents that differ at most in the case of their letters.
TextPairs ==
    {[kind |-> "texts", a |-> p[1], b |-> p[2]] :
        p \in {q \in Texts \X Texts : toLowerCase(q[1]) = toLowerCase(q[2])}}
\* s.includes(m)
includes(s, m) ==
    \E i \in 0..(Len(s) - Len(m)) : SubSeq(s, i + 1, i + Len(m)) = m
\* BLOCK_MARKERS of main.js, all in lower case
BLOCK_MARKERS == {<<"j", "a", "s">>}
\* isBlocked(html) of main.js: the markers are looked for in html.toLowerCase()
isBlockedHtml(html) == \E m \in BLOCK_MARKERS : includes(toLowerCase(html), m)
\* The bot detection check of the hybrid handler: bodyText.includes('...
\* JavaScript is enabled'), on the text as it is.
BotDetected(bodyText) == includes(bodyText, <<"J", "a", "S">>)

\* ------------------------------------------------------- description length
\* A description by its size: the characters of its markup and the
\* characters of its text (whitespace already collapsed).
DescriptionLimit == 6000
Descriptions ==
    {[kind |-> "desc", markup |-> m, text |-> n] :
        m \in {0, 7},
        n \in {0, 1, DescriptionLimit - 1, DescriptionLimit, DescriptionLimit + 1}}
NoText == [t |-> "null"]
Chars(n) == [t |-> "text", len |-> n]
\* stripWhitespace(cheerio text) and cleanText(html): the text without the markup
stripHtml(d) == Chars(d.text)
\* text.slice(0, n)
SliceText(txt, n) == Chars(Min(txt.len, n))
\* extractJobFromDetail: descText ? descText.slice(0, 6000) : null
DescTextDetail(d) ==
    LET descText == stripHtml(d) IN
    IF descText.len > 0 THEN SliceText(descText, DescriptionLimit) ELSE NoText
\* runApiHarvest: detail.description ? stripHtml(detail.description) : null
DescTextApi(d) == IF d.markup + d.text > 0 THEN stripHtml(d) ELSE NoText
\* Hybrid DETAIL handler: data.description_text = cleanText(description_html),
\* pushed as data.description_text || null
DescTextHybrid(d) == IF stripHtml(d).len > 0 THEN stripHtml(d) ELSE NoText

\* ------------------------------------------------------------- the seed URL
\* keyword, location and category as the input may hold them: empty, a word,
\* or two words with a space.
SearchValues == {<<>>, <<"a">>, <<"s">>, <<"a", " ", "s">>}
\* Two configurations without explicit seed that differ in one field only,
\* the location or the category, which is not empty in the second.
SearchPairs ==
    {[kind |-> "search", keyword |-> kw, location |-> loc, category |-> cat,
      field |-> f, other |-> o] :
        kw \in SearchValues, loc \in SearchValues, cat \in SearchValues,
        f \in {"location", "category"}, o \in SearchValues \ {<<>>}}
Config(i) == [keyword |-> i.keyword, location |-> i.location, category |-> i.category]
OtherConfig(i) == [Config(i) EXCEPT ![i.field] = i.other]
\* String(x).trim()
RECURSIVE trimStart(_)
trimStart(s) == IF s # <<>> /\ Head(s) = " " THEN trimStart(Tail(s)) ELSE s
RECURSIVE trimEnd(_)
trimEnd(s) ==
    IF s # <<>> /\ s[Len(s)] = " " THEN trimEnd(SubSeq(s, 1, Len(s) - 1)) ELSE s
trim(s) == trimEnd(trimStart(s))
\* buildStartUrl (hybrid): list.xhtml with keyword, provinceIds and category
\* set when not empty, and sortBy.
buildStartUrl(c) ==
    [path |-> "list.xhtml",
     query |-> (IF c.keyword # <<>> THEN <<[k |-> "keyword", v |-> trim(c.keyword)]>> ELSE <<>>)
        \o (IF c.location # <<>> THEN <<[k |-> "provinceIds", v |-> trim(c.location)]>> ELSE <<>>)
        \o (IF c.category # <<>> THEN <<[k |-> "category", v |-> trim(c.category)]>> ELSE <<>>)
        \o <<[k |-> "sortBy", v |-> <<"PUBLICATION_DATE">>]>>]
\* slugify: lower case, every run of other characters a dash, no dash at the
\* ends.
RECURSIVE Dashes(_)
Dashes(s) ==
    IF s = <<>> THEN <<>>
    ELSE IF Head(s) \notin Letters
    THEN (IF Len(s) > 1 /\ s[2] \notin Letters THEN <<>> ELSE <<"-">>) \o Dashes(Tail(s))
    ELSE <<toLowerChar(Head(s))>> \o Dashes(Tail(s))
RECURSIVE trimDashes(_)
trimDashes(s) ==
    IF s # <<>> /\ Head(s) = "-" THEN trimDashes(Tail(s))
    ELSE IF s # <<>> /\ s[Len(s)] = "-" THEN trimDashes(SubSeq(s, 1, Len(s) - 1))
    ELSE s
slugify(s) == trimDashes(Dashes(s))
\* buildSeoSearchUrl: ofertas-trabajo/loc/cat/kw, /loc/kw, /kw, or the base
buildSeoSearchUrl(keyword, location, category) ==
    LET kw == slugify(keyword)
        loc == slugify(location)
        cat == slugify(category)
    IN  IF loc # <<>> /\ kw # <<>> /\ cat # <<>> THEN <<"ofertas-trabajo", loc, cat, kw>>
        ELSE IF loc # <<>> /\ kw # <<>> THEN <<"ofertas-trabajo", loc, kw>>
        ELSE IF kw # <<>> THEN <<"ofertas-trabajo", kw>>
        ELSE <<"ofertas-trabajo">>
\* buildStartUrls (main.js) without startUrls and startUrl
buildStartUrls(c) ==
    IF c.keyword # <<>> \/ c.location # <<>>
    THEN buildSeoSearchUrl(c.keyword, c.location, c.category)
    ELSE <<"ofertas-trabajo">>

InitPure ==
    /\ prog = "pure"
    /\ input \in {doc \in DetailDocs : WellFormedDoc(doc)} \cup ApiItems \cup BatchLinks
                \cup ListDocs \cup RawInputs
                \cup HrefPairs
                \cup TextPairs
                \cup Descriptions
                \cup SearchPairs
    /\ out = NoOut
    /\ RESULTS_WANTED = 1 /\ MAX_PAGES = 1 /\ collectDetails = TRUE /\ dedupe = TRUE
    /\ initial = <<>> /\ mainPc = "start" /\ queue = {} /\ flight = {} /\ saved = 0
    /\ sink = [u \in DetailUrls |-> 0] /\ seenUrls = {}
    /\ sessionCookies = 0 /\ userAgent = 0 /\ cookieString = 0 /\ handshakes = 0
    /\ botCheck = [u \in {} |-> "no"] /\ mst = NoMain /\ hist = NoHist

\* Everything but out.
pureFrame ==
    <<prog, RESULTS_WANTED, MAX_PAGES, collectDetails, dedupe, initial, input, mainPc,
      queue, flight, saved, sink, seenUrls, sessionCookies, userAgent, cookieString,
      handshakes, botCheck, mst, hist>>

\* The hybrid DETAIL handler builds its item and pushes it.
PushHybridDetail ==
    /\ prog = "pure" /\ input.kind = "detail" /\ out = NoOut
    /\ out' = [by |-> "hybrid", pushed |-> TRUE,
               rec |-> HybridItem(extractJobDetails(input), input.url)]
    /\ UNCHANGED pureFrame

\* A detail handler of main.js pushes the job unless it has no title.
PushMainDetail ==
    /\ prog = "pure" /\ input.kind = "detail" /\ out = NoOut
    /\ LET job == extractJobFromDetail(input) IN
        out' = [by |-> "main", pushed |-> job.title \notin Falsy, rec |-> job]
    /\ UNCHANGED pureFrame

\* runApiHarvest pushes the payload of an item.
PushApiItem ==
    /\ prog = "pure" /\ input.kind = "api" /\ out = NoOut
    /\ out' = [by |-> "api", pushed |-> TRUE, rec |-> ApiPayload(input)]
    /\ UNCHANGED pureFrame

\* The hybrid LIST handler pushes a summary record (collectDetails = false).
PushBatchItem ==
    /\ prog = "pure" /\ input.kind = "link" /\ out = NoOut
    /\ out' = [by |-> "batch", pushed |-> TRUE, rec |-> BatchItem(input.url)]
    /\ UNCHANGED pureFrame


\* findNextPage($, request.url) in the hybrid LIST handler
NextPageHybrid ==
    /\ prog = "pure" /\ input.kind = "list" /\ out = NoOut
    /\ out' = [by |-> "findNextPage", next |-> findNextPageOf(input)]
    /\ UNCHANGED pureFrame

\* findNextPageCheerio($, base) in the HTML list handler of main.js
NextPageCheerio ==
    /\ prog = "pure" /\ input.kind = "list" /\ out = NoOut
    /\ out' = [by |-> "findNextPageCheerio", next |-> findNextPageCheerioOf(input)]
    /\ UNCHANGED pureFrame

\* The hybrid program reads its input.
NormalizeHybrid ==
    /\ prog = "pure" /\ input.kind = "raw" /\ out = NoOut
    /\ out' = [by |-> "hybridInput", target |-> HybridResultsWanted(input.results_wanted),
               ceiling |-> HybridMaxPages(input.max_pages)]
    /\ UNCHANGED pureFrame

\* normalizeInput(input) in main.js
NormalizeMain ==
    /\ prog = "pure" /\ input.kind = "raw" /\ out = NoOut
    /\ out' = [by |-> "normalizeInput", target |-> maxItems(input.results_wanted),
               ceiling |-> maxPages(input.max_pages)]
    /\ UNCHANGED pureFrame

\* extractJobLinksCheerio on two hrefs of a page, and on its own results
NormalizeLinks ==
    /\ prog = "pure" /\ input.kind = "hrefs" /\ out = NoOut
    /\ out' = [by |-> "extractJobLinksCheerio",
               a |-> LinkKey(Serialize(input.a)), b |-> LinkKey(Serialize(input.b)),
               again |-> LinkKey(LinkKey(Serialize(input.a)))]
    /\ UNCHANGED pureFrame

\* isBlocked(html) in the list and detail handlers of main.js
ClassifyMain ==
    /\ prog = "pure" /\ input.kind = "texts" /\ out = NoOut
    /\ out' = [by |-> "isBlocked", a |-> isBlockedHtml(input.a), b |-> isBlockedHtml(input.b)]
    /\ UNCHANGED pureFrame

\* The bot detection check at the head of the hybrid handler
ClassifyHybrid ==
    /\ prog = "pure" /\ input.kind = "texts" /\ out = NoOut
    /\ out' = [by |-> "botDetection", a |-> BotDetected(input.a), b |-> BotDetected(input.b)]
    /\ UNCHANGED pureFrame

\* description_text of a record, on each path that saves records
DescribeDetail ==
    /\ prog = "pure" /\ input.kind = "desc" /\ out = NoOut
    /\ out' = [by |-> "descDetail", text |-> DescTextDetail(input)]
    /\ UNCHANGED pureFrame

DescribeApi ==
    /\ prog = "pure" /\ input.kind = "desc" /\ out = NoOut
    /\ out' = [by |-> "descApi", text |-> DescTextApi(input)]
    /\ UNCHANGED pureFrame

DescribeHybrid ==
    /\ prog = "pure" /\ input.kind = "desc" /\ out = NoOut
    /\ out' = [by |-> "descHybrid", text |-> DescTextHybrid(input)]
    /\ UNCHANGED pureFrame

\* The seed URL of the hybrid program for both configurations
SeedHybrid ==
    /\ prog = "pure" /\ input.kind = "search" /\ out = NoOut
    /\ out' = [by |-> "buildStartUrl", a |-> buildStartUrl(Config(input)),
               b |-> buildStartUrl(OtherConfig(input))]
    /\ UNCHANGED pureFrame

\* The seed URL of main.js for both configurations
SeedMain ==
    /\ prog = "pure" /\ input.kind = "search" /\ out = NoOut
    /\ out' = [by |-> "buildStartUrls", a |-> buildStartUrls(Config(input)),
               b |-> buildStartUrls(OtherConfig(input))]
    /\ UNCHANGED pureFrame

NextPure ==
    \/ PushHybridDetail \/ PushMainDetail \/ PushApiItem \/ PushBatchItem
    \/ NextPageHybrid \/ NextPageCheerio
    \/ NormalizeHybrid \/ NormalizeMain
    \/ NormalizeLinks
    \/ ClassifyMain \/ ClassifyHybrid
    \/ DescribeDetail \/ DescribeApi \/ DescribeHybrid
    \/ SeedHybrid \/ SeedMain
SpecPure == InitPure /\ [][NextPure]_vars

\* ------------------------------------------------------------------ claims
\* The number of records appended to the sink so far.
RECURSIVE SumOver(_, _)
SumOver(f, S) ==
    IF S = {} THEN 0
    ELSE LET u == CHOOSE x \in S : TRUE IN f[u] + SumOver(f, S \ {u})
Appended == SumOver(sink, DetailUrls)
\* A batch of summary records is appended by the list handler itself.
BatchPath == prog = "hybrid" /\ ~collectDetails

C2_FinalOvershoot == mainPc = "done" => saved <= RESULTS_WANTED + (Workers - 1)

C4_NoUrlSavedTwice == prog = "main" => \A u \in DetailUrls : sink[u] <= 1
\* C4 amended: with dedupe enabled, no two records share a detail URL.
C4_NoUrlSavedTwiceDedupe ==
    (prog = "main" /\ dedupe) => \A u \in DetailUrls : sink[u] <= 1
\* the HTML phase meets again a URL the rendered phase found, saved once
C4_MetInTwoPhases ==
    /\ prog = "main" /\ dedupe /\ mainPc = "done"
    /\ \E u \in DetailUrls : hist.disc[u] >= 2 /\ sink[u] = 1

\* C5: in every phase the block classification comes before any discovery
\* or extraction on a fetched document, so no document carrying the block
\* marker ever contributes a detail link or a pagination successor.
C5_BlockedContributesNothing == ~hist.fromBlocked

\* The requests the crawler holds: queued, or in a running handler.
AllRequests == queue \cup {h.req : h \in flight}

OnlyBlock(u) == mainPc = "done" /\ prog = "hybrid" /\ hist.blk = {u} /\ hist.nblk = 1

\* C7 as stated: a detail URL blocked once and served on the next attempt,
\* every other fetch served, ends with exactly one record and with exactly
\* one bootstrap on top of the initial one.
C7_OneRecordOneBootstrap ==
    \A u \in DetailUrls : OnlyBlock(u) => sink[u] = 1 /\ handshakes = 2
\* C7 amended: such a URL ends with exactly one record, unless the target had
\* been reached by other records when its retry was handled (then with
\* none), and with exactly one bootstrap on top of the initial one.
C7_RecordUnlessTargetMet ==
    \A u \in DetailUrls : OnlyBlock(u) =>
        /\ sink[u] <= 1
        /\ sink[u] = 1 \/ saved >= RESULTS_WANTED
        /\ handshakes = 2
\* detail 1 was blocked once, fetched again and saved
C7_SavedOnRetry ==
    \E u \in DetailUrls : OnlyBlock(u) /\ sink[u] = 1 /\ handshakes = 2

\* C8: every request being fetched carries the cookies and the User-Agent
\* of one and the same handshake, before and after a re-bootstrap.
C8_OneIdentityPerFetch ==
    prog = "hybrid" =>
        \A h \in flight : h.pc = "fetch" => h.req.hCookie = h.req.hUA

\* The handlers that are inside acquireSessionCookies.
Bootstrapping == {h \in flight : h.pc \in {"hs_cookies", "hs_ua"}}

\* C9: at most one session bootstrap is in progress at any time.
C9_OneBootstrapAtATime == Cardinality(Bootstrapping) <= 1

\* C10: no failure of a single page request, an API page answered with
\* 401, 403 or 5xx included, aborts the run.
C10_NeverAborted == mainPc # "aborted"

\* C11: no record without a title is ever appended to the sink: a detail
\* page on which every extraction stage leaves the title empty is skipped.
C11_NoUntitledRecord ==
    ~BatchPath => \A u \in DetailUrls : sink[u] > 0 => u \in Titled

\* The keys every record of the sink has to carry, besides url.
RecordKeys ==
    {"title", "company", "location", "salary", "job_type", "date_posted",
     "description_html", "description_text"}

\* C12: every record pushed, on every path that saves records, has an
\* absolute url and each of the record keys present, with a value or null.
C12_FixedSchema ==
    (out.by \in {"hybrid", "main", "api", "batch"} /\ out.pushed) =>
        /\ out.rec.url = "U"
        /\ \A k \in RecordKeys : out.rec[k] # "undef"

\* C13: in detail extraction every field the JobPosting supplies with a
\* non-empty value is carried by the record with that value.
C13_StructuredWins ==
    (out # NoOut /\ out.by \in {"hybrid", "main"} /\ input.hasLd) =>
        \A f \in LdFields : input.ld[f] \notin Falsy => out.rec[f] = input.ld[f]

\* A page whose JobPosting supplies every field and whose DOM has no marker.
StructuredOnly(doc) ==
    /\ doc.hasLd
    /\ \A f \in LdFields : doc.ld[f] = "L"
    /\ \A f \in DomFields : doc.dom[f] = ""

\* C18: for such a page the record has title, company, location,
\* date_posted, description_html and description_text all non-null, the
\* description text being the text of the structured description.
C18_PopulatedFromStructured ==
    (out # NoOut /\ out.by \in {"hybrid", "main"} /\ StructuredOnly(input)) =>
        /\ \A k \in LdFields \cup {"description_text"} : out.rec[k] \notin {"null", "undef"}
        /\ out.rec.description_text = TextOf(input.ld.description_html)

\* C16: a list page without a next-page link whose URL has page=n gets the
\* same URL with page=n+1 and every other parameter unchanged (page=2 when
\* the URL has no page parameter); with a next-page link, the link's target.
C16_NextPage ==
    (out # NoOut /\ out.by \in {"findNextPage", "findNextPageCheerio"}) =>
        LET q == input.base.query
            pages == SelectSeq(q, LAMBDA e : e.k = "page")
            n == IF pages # <<>> /\ pages[1].v # <<>> THEN parseInt(pages[1].v) ELSE 1
        IN  /\ input.next.t = "href" => out.next = [t |-> "url", url |-> input.next.url]
            /\ input.next.t = "none" =>
                /\ out.next.t = "url"
                /\ out.next.url.path = input.base.path
                /\ searchParamsGet(out.next.url.query, "page") = toString(n + 1)
                /\ Without(out.next.url.query, "page") = Without(q, "page")
\* ?q=x&page=19 without a link became ?q=x&page=20
C16_Page19 ==
    /\ out # NoOut /\ out.by = "findNextPage" /\ input.next.t = "none"
    /\ input.base.query = <<[k |-> "q", v |-> <<"x">>], [k |-> "page", v |-> <<"1", "9">>]>>
    /\ out.next.url.query = <<[k |-> "q", v |-> <<"x">>], [k |-> "page", v |-> <<"2", "0">>]>>

\* C20: without results_wanted the target is 100, without max_pages the page
\* ceiling is 20, and whatever is supplied the target and the ceiling are at
\* least 1.
AtLeastOne(n) == IF n.t = "num" THEN n.v >= 1 ELSE n.t = "MAX_SAFE_INTEGER"
C20_DefaultsAndFloor ==
    out.by \in {"hybridInput", "normalizeInput"} =>
        /\ input.results_wanted.t = "undefined" => out.target = Num(100)
        /\ input.max_pages.t = "undefined" => out.ceiling = Num(20)
        /\ AtLeastOne(out.target) /\ AtLeastOne(out.ceiling)

\* The list requests a step enqueues as pagination successors: new in the
\* queue, beyond the first page, not a retry.
Successors == {r \in queue' \ queue : r.label = "LIST" /\ r.pageNo > 1 /\ r.retryCount = 0}
\* C14: no list handler enqueues a successor once its page depth has reached
\* the ceiling or once saved has reached the target, so that every list
\* request has a depth between 1 and the ceiling.
C14_SuccessorWithinCeiling ==
    /\ [](\A r \in AllRequests : r.label = "LIST" => r.pageNo \in 1..MAX_PAGES)
    /\ [][\A r \in Successors : r.pageNo <= MAX_PAGES /\ saved' < RESULTS_WANTED]_vars
\* A successor at the ceiling is queued while a record has been saved.
C14_LastPageQueued ==
    \E r \in queue : r.label = "LIST" /\ r.pageNo = MAX_PAGES /\ r.pageNo > 1 /\ saved > 0

\* C15: over a whole run, whatever the seeds and the phases, the list pages
\* fetched are at most max_pages in number.
C15_ListPagesWithinCeiling == Cardinality(hist.lists) <= MAX_PAGES

\* The fetches a step starts.
Dispatched == {h \in flight' \ flight : h.pc \in {"fetch", "goto"}}
\* C19: once saved has reached the target no new fetch, list or detail, is
\* dispatched; the fetches in flight alone complete.
C19_NoDispatchAfterTarget == [][saved >= RESULTS_WANTED => Dispatched = {}]_vars

\* The scenario of C17: the one seed is list page A1, which has two detail
\* links, both to pages with a title; target 2, page ceiling 1; no fetch is
\* answered with the bot-check page and no API call fails.
TwoLinkScenario ==
    /\ initial = <<ListUrl("A", 1)>> /\ RESULTS_WANTED = 2 /\ MAX_PAGES = 1
    /\ \A u \in DOMAIN botCheck : botCheck[u] = "no"
    /\ hist.nblk = 0 /\ ~hist.fromBlocked /\ mst.apiFail = 0
TwoLinks == Range(LinksOn(ListUrl("A", 1)))
NoSuccessor == \A r \in AllRequests : r.label = "LIST" => r.pageNo = 1
\* C17 as stated: in the scenario the run appends exactly 2 records,
\* enqueues no pagination successor and fetches each of the 2 detail URLs
\* exactly once.
C17_TwoRecordsTwoFetches ==
    TwoLinkScenario =>
        /\ NoSuccessor
        /\ mainPc = "done" =>
            /\ Appended = 2
            /\ \A u \in TwoLinks : hist.fetched[u] = 1
\* C17 amended: 2 records and no successor in every such run; each of the 2
\* detail URLs is fetched exactly once when the records come from detail
\* pages, that is with detail collection on and no API harvest; otherwise
\* no detail URL is fetched at all.
C17_TwoRecordsFetchedIfCollected ==
    TwoLinkScenario =>
        /\ NoSuccessor
        /\ mainPc = "done" =>
            /\ Appended = 2 /\ saved = 2
            /\ \A u \in TwoLinks :
                hist.fetched[u] = IF collectDetails /\ mst.api # "ok" THEN 1 ELSE 0
            /\ \A u \in DetailUrls \ TwoLinks : hist.fetched[u] = 0
\* the hybrid run of the scenario has ended with both detail pages fetched
C17_ScenarioRun ==
    /\ TwoLinkScenario /\ mainPc = "done" /\ prog = "hybrid" /\ collectDetails
    /\ Appended = 2 /\ \A u \in TwoLinks : hist.fetched[u] = 1
\* Two hrefs that differ at most in their query string.
SameButQuery(a, b) == a.abs = b.abs /\ a.path = b.path /\ a.frag = b.frag
\* C21: the key of a detail link (resolved, query string dropped) is not
\* changed by normalizing it again, and two hrefs that differ only in their
\* query string have the same key.
C21_KeyIdempotent ==
    out.by = "extractJobLinksCheerio" =>
        /\ out.again = out.a
        /\ SameButQuery(input.a, input.b) => out.a = out.b

\* C22: the process ends with exit status 0 on normal completion, with or
\* without records, and with a non-zero status when the initial bootstrap
\* obtained no cookies.
C22_ExitStatus ==
    out.by = "Actor.exit" =>
        /\ mainPc = "done" => out.code = 0
        /\ mainPc = "failed" => out.code # 0

\* The list handlers that end in a step, on a document without job links.
EmptyListHandled ==
    {h \in flight \ flight' :
        /\ h.req.label = "LIST" /\ h.pc \in {"fetch", "pw_links"}
        /\ LinksOn(h.req.url) = <<>> /\ ~Blocked(h.req.url)}
\* C23: a list page that yields no detail link produces no pagination
\* successor: a chain past the last page of results stops there.
C23_EmptyPageEndsChain == [][EmptyListHandled # {} => Successors = {}]_vars

C25_BlockSparesRetryBudget == hist.failed # {} => hist.tfail = maxRequestRetries + 1

\* Nothing has been enqueued, fetched or saved.
Idle ==
    /\ queue = {} /\ flight = {} /\ saved = 0 /\ Appended = 0
    /\ hist.lists = {} /\ hist.nblk = 0 /\ \A u \in DetailUrls : hist.fetched[u] = 0
\* C26: in the hybrid pipeline no fetch is dispatched before the initial
\* bootstrap has finished; the crawler runs only with the cookies of the
\* initial bootstrap, and a bootstrap that ends without cookies is followed
\* by no fetch and no record.
C26_NoFetchWithoutBootstrap ==
    prog = "hybrid" =>
        /\ mainPc \in {"start", "hs_cookies", "hs_ua", "failed"} => Idle
        /\ mainPc \in {"crawl", "done"} => handshakes >= 1 /\ cookieString # 0
        /\ mainPc = "failed" <=> (mainPc \notin {"start", "hs_cookies", "hs_ua"} /\ cookieString = 0)
\* the initial bootstrap has ended without cookies and the process has exited
C26_BootstrapFailed ==
    /\ prog = "hybrid" /\ mainPc = "failed" /\ sessionCookies = 0 /\ handshakes = 1
    /\ out.by = "Actor.exit" /\ Idle
\* C27: wherever fetched documents are classified, two documents that differ
\* only in the case of their letters are classified alike.
C27_CaseInsensitive == out.by \in {"isBlocked", "botDetection"} => out.a = out.b
\* C28: on every path the description_text of a record is no longer than
\* the fixed maximum of 6000 characters.
C28_DescriptionTextBounded ==
    (out.by \in {"descDetail", "descApi", "descHybrid"} /\ out.text # NoText) =>
        out.text.len <= 6000

\* API credentials are present and tryGetToken failed.
TokenFailed == prog = "main" /\ mst.api = "tokenfail"
C30_SeedReflectsInputs ==
    (out.by \in {"buildStartUrl", "buildStartUrls"} /\ Config(input) # OtherConfig(input)) =>
        out.a # out.b

\* The handler h is at the block test of its document: the HTML list handler
\* always is, a detail handler unless the target is already reached.
Classified(h) ==
    /\ prog = "main" /\ h.pc = "fetch"
    /\ \/ mainPc = "html_list"
       \/ mainPc \in {"pw_detail", "html_detail"} /\ saved < RESULTS_WANTED

\* C31: in main.js every document classified BLOCKED adds exactly one to
\* state.blocked and nothing else does, so the counter equals the number of
\* BLOCKED classifications; the handler of such a document appends no
\* record, does not count a save, and its request is neither re-enqueued
\* nor kept running.
C31_BlockedCountedOnce ==
    /\ [](prog = "main" => mst.blocked = hist.nblk)
    /\ [][/\ \A h \in flight \ flight' :
              Classified(h) /\ Blocked(h.req.url) =>
                  /\ mst'.blocked = mst.blocked + 1
                  /\ sink' = sink /\ saved' = saved
                  /\ queue' = queue /\ flight' = flight \ {h}
          /\ mst'.blocked # mst.blocked =>
                 \E h \in flight \ flight' : Classified(h) /\ Blocked(h.req.url)]_vars

\* A run that ended after a list page and a detail page were both classified
\* BLOCKED.
C31_ListAndDetailBlocked ==
    /\ prog = "main" /\ mainPc = "done" /\ mst.blocked = 2
    /\ ListUrl("A", 1) \in hist.blk /\ DetailUrl(1) \in hist.blk

\* C32: in the Playwright list phase of main.js the captured session cookies
\* are assigned at most once: once sessionCookies is non-empty no list
\* handler, later or concurrent, changes it.
C32_CookiesAssignedOnce ==
    [][prog = "main" /\ mainPc = "pw_list" /\ sessionCookies # 0
           => sessionCookies' = sessionCookies]_vars

\* C33: discovered work is never lost: at the end of a run every detail URL
\* that link discovery put in the seen-set was dispatched to a detail fetch
\* or saved.
C33_SeenIsDispatched ==
    mainPc = "done" =>
        \A u \in seenUrls : hist.disp[u] >= 1 \/ sink[u] >= 1

\* The run is over: the crawler holds no request, and the top-level function
\* has returned or thrown (and, in the hybrid program, Actor.exit was called).
Final ==
    /\ queue = {} /\ flight = {}
    /\ prog = "hybrid" => mainPc \in {"done", "failed"} /\ out # NoOut
    /\ prog = "main" => mainPc \in {"done", "aborted"}

\* C34: every run terminates: with fetches that each return (a document, the
\* bot-check page or a failure) the queue of every crawler phase empties and
\* the run reaches its final state and stays there, also when every fetch
\* is blocked and when list pages yield a synthesized successor.
C34_RunTerminates == <>[]Final

\* The end of a hybrid run in which both seeds were blocked on every fetch
\* and given up.
C34_BlockadeOver ==
    /\ Final /\ prog = "hybrid" /\ mainPc = "done"
    /\ DOMAIN botCheck = SitePages
    /\ Len(initial) = 2 /\ hist.failed = Range(initial)
    /\ hist.nblk = 2 * (maxRequestRetries + 1)

\* A handler is between its append to the sink and its counter update.
Appending == \E h \in flight : h.pc \in {"detail_pushed", "list_pushed"}

\* C35: whenever no handler is between its append and its counter update, in
\* particular at the end of the run, saved equals the number of records in
\* the sink; the counter never runs ahead of the sink, so an append that
\* failed is never counted.
C35_SavedMatchesSink ==
    /\ saved <= Appended
    /\ ~Appending => saved = Appended

\* The end of a run in which the record of job 2 was rejected and later
\* records were stored and counted.
C35_RejectedThenSaved ==
    /\ mainPc = "done" /\ flight = {} /\ queue = {}
    /\ sink[DetailUrl(2)] = 0 /\ hist.fetched[DetailUrl(2)] >= 1
    /\ saved = Appended /\ saved >= 1

====
